---- MODULE Spec2Model ----
(***************************************************************************)
(* Verification model of MoCapsNet: the residual capsule block and the     *)
(* capsule network assembly (model.py), the training loop (trainer.py),    *)
(* the command-line driver (main.py) and the routing-by-agreement layer    *)
(* (module capsules, which model.py imports; its source is not part of     *)
(* src/, so RoutingCapsules is modelled from spec.md section 4.3).         *)
(*                                                                         *)
(* Tensors are abstracted: a capsule tensor is a shape (caps, dim) plus    *)
(* one integer component val; tensor addition adds the components and      *)
(* follows the broadcasting rule on the shape.                             *)
(***************************************************************************)
EXTENDS Integers, Sequences, FiniteSets, TLC

\* ---------------------------------------------------------------- bounds
MaxVal == 1        \* input tensor components range over 0..MaxVal
MaxShape == 2      \* capsule counts and dimensions range over 1..MaxShape
MaxRouting == 3    \* largest --num_routing value explored
MaxBlocks == 2     \* largest --num_res_blocks value explored
MaxBatch == 2      \* largest number of examples in one batch
MaxLen == 2        \* output capsule components range over 0..MaxLen
NumClasses == 2    \* number of output classes (len(classes))
MaxEpochs == 11    \* largest --epochs value explored
MaxTrainBatches == 3   \* largest number of batches of the train loader
LuckyEpoch == 2    \* the epoch whose test batches past the first may be hits

\* ------------------------------------------------------- program constants
Patience == 10     \* EarlyStopping(patience=10)

VARIABLES
    \* ResCapsBlock (model.py 13-34)
    block,      \* the constructed block: its layers' shapes, skip, weights
    bx0,        \* the argument x of ResCapsBlock.forward
    bx,         \* the local x of ResCapsBlock.forward
    bk,         \* index of the next entry of self.functions
    bpc,        \* position: "new", "constructed", "forward", "returned", "shape_error"
    \* RoutingCapsules.forward (spec.md 4.3)
    rn,         \* num_routing_iterations, as passed from --num_routing
    rx,         \* the input capsule x (one capsule of dimension 1)
    rW,         \* the layer's weight W (1 x 1)
    ru,         \* u_hat of the single (i, j) pair
    ri,         \* loop index
    rb,         \* coupling logit b, as a numerator over v's denominator
    rv,         \* output v: NoV or <<numerator, denominator>>
    rlog,       \* the steps executed so far, in order
    rpc,        \* position: "idle", "start", "loop", "upd", "done", "no_output"
    \* CapsuleNetwork.forward (model.py 76-99)
    nblocks,    \* self.blocks: the block stack, by block index
    nbatch,     \* number of examples in the batch x
    nout,       \* the local out: the stages applied to the input so far
    nk,         \* position in `for block in self.blocks`
    layers,     \* the local list layers
    ncaps2in,   \* what self.caps2 was applied to
    ncaps,      \* out after caps2: per example, per class, the capsule
    preds,      \* per example, per class, the capsule length
    max_length_idx, \* per example, the selected class
    ny,         \* y: per example, the row of the identity matrix
    nmasked,    \* out * y, the decoder's input
    npc,        \* position: "idle", "conv", "primary", "caps1", "blocks",
                \* "caps2", "mask", "returned"
    \* CapsNetTrainer.run (trainer.py 81-248)
    epochs,     \* the argument epochs
    conflicts,  \* self.conflicts
    nlayers,    \* len(layers) of every forward pass (the number of blocks)
    loaders,    \* number of batches of self.loaders['train'] and ['test']
    epoch, phase,
    bpos,       \* position of the enumerate() of the batch loop
    i,          \* the local i (rebound by the bundle-measurement loop)
    running_loss, correct, total,
    best_test_acc, best_epoch, epochs_no_improve,
    history,
    printed,    \* the loss of the last log line, or NoLine
    saves,      \* number of torch.save calls so far
    steps,      \* number of optimizer.step calls so far
    tpc,        \* position: "idle", "batch", "save",
                \* "class_eval", "returned", "ZeroDivisionError"
    \* main.py
    args,       \* the argparse namespace, as a record of its attributes
    classes,    \* len(classes)
    mpc         \* position: "idle", "parsed", "dataset", "loaders",
                \* "trainer", "run", "running", "ValueError", "AttributeError"

blockVars == <<block, bx0, bx, bk, bpc>>
routeVars == <<rn, rx, rW, ru, ri, rb, rv, rlog, rpc>>
netVars == <<nblocks, nbatch, nout, nk, layers, ncaps2in, ncaps, preds,
             max_length_idx, ny, nmasked, npc>>
trainVars == <<epochs, conflicts, nlayers, loaders, epoch, phase, bpos, i,
               running_loss, correct, total, best_test_acc, best_epoch,
               epochs_no_improve, history, printed, saves, steps, tpc>>
mainVars == <<args, classes, mpc>>
vars == <<blockVars, routeVars, netVars, trainVars, mainVars>>

Abs(n) == IF n < 0 THEN -n ELSE n
Max(a, b) == IF a >= b THEN a ELSE b

\* =========================================================================
\* ResCapsBlock
\* =========================================================================
NoBlock == [constructed |-> FALSE]
NoTensor == [caps |-> 0, dim |-> 0, val |-> 0]

Shapes == 1..MaxShape
\* What one RoutingCapsules layer computes on the abstract component: any
\* map (it is fixed by the layer's weights W, drawn at construction).
LayerFn == [0..(MaxVal + 1) -> 0..1]

Tensor(c, d, v) == [caps |-> c, dim |-> d, val |-> v]

\* RoutingCapsules.__init__: stores the configuration and creates W; it has
\* no relation to check between its in and out shapes (caps1 and caps2 of
\* CapsuleNetwork are built with different in and out shapes).
RoutingCapsules(in_dim, in_caps, num_caps, dim_caps, W) ==
    [in_dim |-> in_dim, in_caps |-> in_caps, num_caps |-> num_caps,
     dim_caps |-> dim_caps, W |-> W]

\* A layer accepts exactly the input shape it was configured with.
LayerAccepts(f, x) == x.caps = f.in_caps /\ x.dim = f.in_dim
LayerApply(f, x) == Tensor(f.num_caps, f.dim_caps, f.W[x.val])

\* x + y on tensors: sizes must be equal or one of them 1 (broadcasting).
DimCompatible(a, b) == a = b \/ a = 1 \/ b = 1
CanAdd(x, y) == DimCompatible(x.caps, y.caps) /\ DimCompatible(x.dim, y.dim)
TensorAdd(x, y) == Tensor(Max(x.caps, y.caps), Max(x.dim, y.dim), x.val + y.val)

\* ResCapsBlock.__init__: two RoutingCapsules built from the same arguments.
ResCapsBlock(in_dim, in_caps, num_classes, out_dim, skip, W1, W2) ==
    [constructed |-> TRUE,
     in_dim |-> in_dim, in_caps |-> in_caps,
     num_classes |-> num_classes, out_dim |-> out_dim,
     skip |-> skip,
     functions |-> <<RoutingCapsules(in_dim, in_caps, num_classes, out_dim, W1),
                     RoutingCapsules(in_dim, in_caps, num_classes, out_dim, W2)>>]

BlockConstruct ==
    /\ bpc = "new"
    /\ \E in_dim \in Shapes, in_caps \in Shapes, num_classes \in Shapes,
          out_dim \in Shapes, skip \in BOOLEAN, W1 \in LayerFn, W2 \in LayerFn :
          block' = ResCapsBlock(in_dim, in_caps, num_classes, out_dim, skip, W1, W2)
    /\ bpc' = "constructed"
    /\ UNCHANGED <<bx0, bx, bk>>

\* A call of forward(x) with an x of the block's input shape.
BlockForwardBegin ==
    /\ bpc = "constructed"
    /\ \E v \in 0..MaxVal :
          /\ bx0' = Tensor(block.in_caps, block.in_dim, v)
          /\ bx' = Tensor(block.in_caps, block.in_dim, v)
    /\ bk' = 1
    /\ bpc' = "forward"
    /\ UNCHANGED block

\* The body of `for f in self.functions`: whether the layer and the
\* addition accept the shapes, and its result when they do.
BlockStepOk(skip, f, x) ==
    /\ LayerAccepts(f, x)
    /\ skip => CanAdd(x, LayerApply(f, x))

\* Faulty variant: the shortcut forgotten.
BlockStepResultNoShortcut(skip, f, x) == LayerApply(f, x)

BlockStepResult(skip, f, x) ==
    IF skip THEN TensorAdd(x, LayerApply(f, x)) ELSE LayerApply(f, x)

BlockStep ==
    /\ bpc = "forward"
    /\ bk <= Len(block.functions)
    /\ LET f == block.functions[bk] IN
          IF BlockStepOk(block.skip, f, bx)
          THEN /\ bx' = BlockStepResult(block.skip, f, bx)
               /\ bk' = bk + 1
               /\ bpc' = "forward"
          ELSE /\ bpc' = "shape_error"
               /\ UNCHANGED <<bx, bk>>
    /\ UNCHANGED <<block, bx0>>

BlockReturn ==
    /\ bpc = "forward"
    /\ bk > Len(block.functions)
    /\ bpc' = "returned"
    /\ UNCHANGED <<block, bx0, bx, bk>>

BlockInit ==
    /\ block = NoBlock
    /\ bx0 = NoTensor
    /\ bx = NoTensor
    /\ bk = 0
    /\ bpc = "new"

RouteIdle ==
    /\ rn = 0 /\ rx = 0 /\ rW = 0 /\ ru = 0 /\ ri = 0 /\ rb = 0
    /\ rv = <<>> /\ rlog = <<>>
    /\ rpc = "idle"

\* =========================================================================
\* RoutingCapsules.forward, spec.md 4.3, for a layer of one input capsule,
\* one output capsule and dimension 1. Values are exact rationals: v is
\* <<numerator, denominator>> and b is kept as a numerator over the
\* denominator of v.
\* =========================================================================
NoV == <<>>

\* 4.1: (|s|^2 / (1 + |s|^2)) * (s / |s|), the zero vector mapped to zero.
Squash(s) == <<s * Abs(s), 1 + s * s>>

\* 4.3 step 3a over a single output capsule: exp(b) / exp(b).
Softmax(b) == 1

\* 4.3 step 3d: the update runs unless this is the final iteration.
\* Faulty variant: the update runs on every iteration.
UpdateEveryIteration(it, n) == TRUE

ShouldUpdate(it, n) == it # n - 1

\* Steps 1 and 2: u_hat = W x, b = 0.
RouteBegin ==
    /\ rpc = "start"
    /\ ru' = rW * rx
    /\ rb' = 0
    /\ ri' = 0
    /\ rpc' = "loop"
    /\ UNCHANGED <<rn, rx, rW, rv, rlog>>

\* Steps 3a-3c of iteration ri: c = softmax(b), s = c * u_hat, v = squash(s).
RouteIter ==
    /\ rpc = "loop"
    /\ ri < rn
    /\ LET c == Softmax(rb)
           s == c * ru
       IN rv' = Squash(s)
    /\ rlog' = Append(rlog, "iter")
    /\ rpc' = "upd"
    /\ UNCHANGED <<rn, rx, rW, ru, ri, rb>>

\* Step 3d of iteration ri: b += u_hat . v, then the next iteration.
RouteUpdate ==
    /\ rpc = "upd"
    /\ IF ShouldUpdate(ri, rn)
       THEN /\ rb' = rb + ru * rv[1]
            /\ rlog' = Append(rlog, "update")
       ELSE UNCHANGED <<rb, rlog>>
    /\ ri' = ri + 1
    /\ rpc' = "loop"
    /\ UNCHANGED <<rn, rx, rW, ru, rv>>

\* Step 4: return v of the last iteration; there is none when the loop body
\* never ran.
RouteReturn ==
    /\ rpc = "loop"
    /\ ~(ri < rn)
    /\ rpc' = IF rv = NoV THEN "no_output" ELSE "done"
    /\ UNCHANGED <<rn, rx, rW, ru, ri, rb, rv, rlog>>

\* --num_routing is parsed with type=int and no range check (main.py 27) and
\* handed to every layer unchanged (model.py 56, 61, 65).
RouteInit ==
    /\ rn \in (-1)..MaxRouting
    /\ rx \in (-MaxVal)..MaxVal
    /\ rW \in {-1, 1}
    /\ ru = 0 /\ ri = 0 /\ rb = 0
    /\ rv = NoV
    /\ rlog = <<>>
    /\ rpc = "start"

\* =========================================================================
\* CapsuleNetwork. The value of `out` before caps2 is kept as the sequence of
\* stages applied to the input image; the output of caps2 is a number per
\* example and class (a capsule of dimension 1), any value a layer can give.
\* Classes and rows are numbered from 1 here, from 0 in the code.
\* =========================================================================
Stage(op, k) == [op |-> op, k |-> k]
Classes == 1..NumClasses

\* CapsuleNetwork.__init__: `for _ in range(args.num_res_blocks)`.
Blocks(num_res_blocks) == [k \in 1..num_res_blocks |-> k - 1]

\* torch.norm(out, dim=-1) of a capsule of dimension 1.
Norm(v) == Abs(v)

\* preds.max(dim=1): the index of the first maximal value of the row.
\* Faulty variant: a later equal value replaces the current maximum.
RECURSIVE MaxIdxLast(_, _, _)
MaxIdxLast(row, k, best) ==
    IF k > Len(row) THEN best
    ELSE MaxIdxLast(row, k + 1, IF row[k] >= row[best] THEN k ELSE best)

RECURSIVE MaxIdx(_, _, _)
MaxIdx(row, k, best) ==
    IF k > Len(row) THEN best
    ELSE MaxIdx(row, k + 1, IF row[k] > row[best] THEN k ELSE best)

\* torch.eye(n)
Eye(n) == [r \in 1..n |-> [c \in 1..n |-> IF r = c THEN 1 ELSE 0]]

\* The body of `for block in self.blocks`: out = block(out) and then
\* layers.append(out).
\* Faulty variant: the append done before the block is applied.
BlockLoopBodyAppendFirst(out, lays, b) ==
    [out |-> Append(out, Stage("block", b)), layers |-> Append(lays, out)]

BlockLoopBody(out, lays, b) ==
    LET res == Append(out, Stage("block", b))
    IN [out |-> res, layers |-> Append(lays, res)]

\* out = self.conv1(x); out = self.relu(out)
NetConv ==
    /\ npc = "conv"
    /\ nout' = nout \o <<Stage("conv1", 0), Stage("relu", 0)>>
    /\ npc' = "primary"
    /\ UNCHANGED <<nblocks, nbatch, nk, layers, ncaps2in, ncaps, preds,
                   max_length_idx, ny, nmasked>>

\* out = self.primary(out)
NetPrimary ==
    /\ npc = "primary"
    /\ nout' = Append(nout, Stage("primary", 0))
    /\ npc' = "caps1"
    /\ UNCHANGED <<nblocks, nbatch, nk, layers, ncaps2in, ncaps, preds,
                   max_length_idx, ny, nmasked>>

\* out = self.caps1(out); layers = []
NetCaps1 ==
    /\ npc = "caps1"
    /\ nout' = Append(nout, Stage("caps1", 0))
    /\ layers' = <<>>
    /\ nk' = 1
    /\ npc' = "blocks"
    /\ UNCHANGED <<nblocks, nbatch, ncaps2in, ncaps, preds,
                   max_length_idx, ny, nmasked>>

NetBlock ==
    /\ npc = "blocks"
    /\ nk <= Len(nblocks)
    /\ LET r == BlockLoopBody(nout, layers, nblocks[nk])
       IN /\ nout' = r.out
          /\ layers' = r.layers
    /\ nk' = nk + 1
    /\ UNCHANGED <<nblocks, nbatch, ncaps2in, ncaps, preds,
                   max_length_idx, ny, nmasked, npc>>

\* out = self.caps2(out); preds = torch.norm(out, dim=-1)
NetCaps2 ==
    /\ npc = "blocks"
    /\ nk > Len(nblocks)
    /\ ncaps2in' = nout
    /\ nout' = Append(nout, Stage("caps2", 0))
    /\ \E c \in [1..nbatch -> [Classes -> 0..MaxLen]] :
          /\ ncaps' = c
          /\ preds' = [e \in 1..nbatch |-> [j \in Classes |-> Norm(c[e][j])]]
    /\ npc' = "mask"
    /\ UNCHANGED <<nblocks, nbatch, nk, layers, max_length_idx, ny, nmasked>>

\* Lines 92-99: the mask, the decoder's input and the return.
NetReconstruct ==
    /\ npc = "mask"
    /\ LET idx == [e \in 1..nbatch |-> MaxIdx(preds[e], 2, 1)]
           y == [e \in 1..nbatch |-> Eye(NumClasses)[idx[e]]]
       IN /\ max_length_idx' = idx
          /\ ny' = y
          /\ nmasked' = [e \in 1..nbatch |->
                            [j \in Classes |-> ncaps[e][j] * y[e][j]]]
    /\ npc' = "returned"
    /\ UNCHANGED <<nblocks, nbatch, nout, nk, layers, ncaps2in, ncaps, preds>>

NetInit ==
    /\ \E n \in 0..MaxBlocks : nblocks = Blocks(n)
    /\ nbatch \in 1..MaxBatch
    /\ nout = <<>>
    /\ nk = 0
    /\ layers = <<>>
    /\ ncaps2in = <<>>
    /\ ncaps = <<>> /\ preds = <<>> /\ max_length_idx = <<>>
    /\ ny = <<>> /\ nmasked = <<>>
    /\ npc = "conv"

NetIdle ==
    /\ nblocks = <<>> /\ nbatch = 0 /\ nout = <<>> /\ nk = 0 /\ layers = <<>>
    /\ ncaps2in = <<>> /\ ncaps = <<>> /\ preds = <<>>
    /\ max_length_idx = <<>> /\ ny = <<>> /\ nmasked = <<>>
    /\ npc = "idle"

\* =========================================================================
\* CapsNetTrainer.run. A quotient a / b of the code is kept as <<a, b>>.
\* Every batch holds one example; the loss of a batch is fixed by the data
\* set, and so are the predictions but for the first test example, which
\* the network gets right in some epochs and wrong in others.
\* =========================================================================
NoLine == <<>>

Greater(a, b) == a[1] * b[2] > b[1] * a[2]
GreaterEq(a, b) == a[1] * b[2] >= b[1] * a[2]

\* loss.item() of batch k of a phase.
BatchLoss(ph, k) == IF ph = "train" THEN k + 1 ELSE k + 2
\* (predicted == labels).sum() of batch k of a phase of epoch e: the values
\* it can have. The first test batch of every epoch is a hit or a miss; a
\* later test batch can be a hit in epoch LuckyEpoch only.
Hits(ph, k, e) ==
    IF ph = "train" THEN {IF k % 2 = 0 THEN 1 ELSE 0}
    ELSE IF k = 0 \/ e = LuckyEpoch THEN {0, 1} ELSE {0}

\* Lines 132-141: `for i, l in enumerate(layers)` rebinds the batch index i.
IAfterBundles(k, conf, nl) == IF k = 0 /\ conf /\ nl > 0 THEN nl - 1 ELSE k

\* Line 149. Faulty variant: an equal accuracy counts as an improvement.
ImprovedOrEqual(acc, best) == GreaterEq(acc, best)

Improved(acc, best) == Greater(acc, best)

\* Line 155.
ShouldStop(n) == n = Patience

\* Line 154: epochs_no_improve += 1. Faulty variant: the counter is left as
\* it was.
CounterLeftAlone(n) == n

CounterAfterMiss(n) == n + 1

\* Lines 118-120: loss.backward() and self.optimizer.step() run in the train
\* phase only. Faulty variant: they run in every phase.
TakesStepInEveryPhase(ph) == TRUE

TakesStep(ph) == ph = "train"

\* Lines 105-141: one pass of the batch loop.
TrainerBatch ==
    /\ tpc = "batch"
    /\ bpos < loaders[phase]
    /\ \E hits \in Hits(phase, bpos, epoch) : correct' = correct + hits
    /\ steps' = IF TakesStep(phase) THEN steps + 1 ELSE steps
    /\ running_loss' = running_loss + BatchLoss(phase, bpos)
    /\ total' = total + 1
    /\ i' = IAfterBundles(bpos, conflicts, nlayers)
    /\ bpos' = bpos + 1
    /\ UNCHANGED <<epochs, conflicts, nlayers, loaders, epoch, phase,
                   best_test_acc, best_epoch, epochs_no_improve, history,
                   printed, saves, tpc>>

accuracy == <<correct, total>>

\* The start of the next phase (lines 95-104), or of the code after the
\* epoch loop.
EnterPhase(e, ph) ==
    /\ epoch' = e
    /\ phase' = ph
    /\ running_loss' = 0
    /\ correct' = 0
    /\ total' = 0
    /\ bpos' = 0
    /\ tpc' = IF e > epochs THEN "save" ELSE "batch"

\* Lines 143-145 and 213-219 at the end of a train phase.
TrainPhaseEnd ==
    /\ tpc = "batch"
    /\ bpos = loaders[phase]
    /\ phase = "train"
    /\ IF i + i = 0
       THEN /\ tpc' = "ZeroDivisionError"
            /\ UNCHANGED <<epoch, phase, bpos, running_loss, correct, total,
                           history, printed>>
       ELSE /\ history' = [history EXCEPT
                  !.train_loss = Append(@, <<running_loss, i + i>>),
                  !.train_acc = Append(@, accuracy)]
            /\ printed' = <<running_loss, i + 1>>
            /\ EnterPhase(epoch, "test")
    /\ UNCHANGED <<epochs, conflicts, nlayers, loaders, i, best_test_acc,
                   best_epoch, epochs_no_improve, saves, steps>>

\* Lines 146-162 and 213-222 at the end of a test phase. On an early stop
\* the checkpoint is saved (line 161) and the per-class evaluation follows.
TestPhaseEnd ==
    /\ tpc = "batch"
    /\ bpos = loaders[phase]
    /\ phase = "test"
    /\ IF i + i = 0
       THEN /\ tpc' = "ZeroDivisionError"
            /\ UNCHANGED <<epoch, phase, bpos, running_loss, correct, total,
                           history, printed, best_test_acc, best_epoch,
                           epochs_no_improve, saves>>
       ELSE /\ history' = [history EXCEPT
                  !.test_loss = Append(@, <<running_loss, i + i>>),
                  !.test_acc = Append(@, accuracy)]
            /\ IF Improved(accuracy, best_test_acc)
               THEN /\ best_test_acc' = accuracy
                    /\ best_epoch' = epoch
                    /\ epochs_no_improve' = 0
               ELSE /\ epochs_no_improve' = CounterAfterMiss(epochs_no_improve)
                    /\ UNCHANGED <<best_test_acc, best_epoch>>
            /\ IF ~Improved(accuracy, best_test_acc)
                  /\ ShouldStop(CounterAfterMiss(epochs_no_improve))
               THEN /\ saves' = saves + 1
                    /\ bpos' = 0
                    /\ tpc' = "class_eval"
                    /\ UNCHANGED <<epoch, phase, running_loss, correct, total,
                                   printed>>
               ELSE /\ printed' = <<running_loss, i + 1>>
                    /\ EnterPhase(epoch + 1, "train")
                    /\ UNCHANGED saves
    /\ UNCHANGED <<epochs, conflicts, nlayers, loaders, i, steps>>

\* Lines 224-227: the checkpoint after the last epoch.
SaveAfterLoop ==
    /\ tpc = "save"
    /\ saves' = saves + 1
    /\ bpos' = 0
    /\ tpc' = "class_eval"
    /\ UNCHANGED <<epochs, conflicts, nlayers, loaders, epoch, phase, i,
                   running_loss, correct, total, best_test_acc, best_epoch,
                   epochs_no_improve, history, printed, steps>>

\* Lines 166-174 and 231-239: one test batch of the per-class evaluation.
ClassEvalBatch ==
    /\ tpc = "class_eval"
    /\ bpos < loaders["test"]
    /\ bpos' = bpos + 1
    /\ i' = 0
    /\ UNCHANGED <<epochs, conflicts, nlayers, loaders, epoch, phase,
                   running_loss, correct, total, best_test_acc, best_epoch,
                   epochs_no_improve, history, printed, saves, steps, tpc>>

\* Lines 176-212 and 241-248: the report, and the return.
RunReturn ==
    /\ tpc = "class_eval"
    /\ bpos = loaders["test"]
    /\ tpc' = "returned"
    /\ UNCHANGED <<epochs, conflicts, nlayers, loaders, epoch, phase, bpos, i,
                   running_loss, correct, total, best_test_acc, best_epoch,
                   epochs_no_improve, history, printed, saves, steps>>

\* The test set is half the size of the train set (rounded up).
TestBatches(ntrain) == (ntrain + 1) \div 2

\* Lines 82-95: the state at the first batch of the first epoch.
TrainInit ==
    /\ epochs \in 1..MaxEpochs
    /\ conflicts \in BOOLEAN
    /\ nlayers \in 0..MaxBlocks
    /\ loaders \in {[train |-> a, test |-> TestBatches(a)] :
                      a \in 1..MaxTrainBatches}
    /\ epoch = 1
    /\ phase = "train"
    /\ bpos = 0
    /\ i = 0
    /\ running_loss = 0 /\ correct = 0 /\ total = 0
    /\ best_test_acc = <<0, 1>>
    /\ best_epoch = 0
    /\ epochs_no_improve = 0
    /\ history = [train_loss |-> <<>>, train_acc |-> <<>>,
                  test_loss |-> <<>>, test_acc |-> <<>>]
    /\ printed = NoLine
    /\ saves = 0
    /\ steps = 0
    /\ tpc = "batch"

TrainIdle ==
    /\ epochs = 0 /\ conflicts = FALSE /\ nlayers = 0 /\ loaders = <<>>
    /\ epoch = 0 /\ phase = "" /\ bpos = 0 /\ i = 0
    /\ running_loss = 0 /\ correct = 0 /\ total = 0
    /\ best_test_acc = <<0, 1>> /\ best_epoch = 0 /\ epochs_no_improve = 0
    /\ history = <<>> /\ printed = NoLine /\ saves = 0 /\ steps = 0
    /\ tpc = "idle"

\* =========================================================================
\* main.py. args is the namespace parse_args returns: an attribute exists
\* when it is in DOMAIN args.
\* =========================================================================
Datasets == {"MNIST", "CIFAR", "CIFAR100", "SVHN", "JAMONES", "IMAGENET"}

SetAttr(ns, name, value) ==
    [a \in DOMAIN ns \cup {name} |-> IF a = name THEN value ELSE ns[a]]
HasAttr(ns, name) == name \in DOMAIN ns

\* "<prefix>_" + str(args.num_res_blocks)
ModelName(prefix, n) == <<prefix, n>>

\* Lines 80-85: if / elif / elif, without an else.
MainModelName ==
    /\ mpc = "parsed"
    /\ args' =
          IF ~args.residual /\ ~args.momentum
          THEN SetAttr(args, "modelname", ModelName("CapsNet", args.num_res_blocks))
          ELSE IF args.residual /\ ~args.momentum
          THEN SetAttr(args, "modelname", ModelName("ResCapsNet", args.num_res_blocks))
          ELSE IF args.residual /\ args.momentum
          THEN SetAttr(args, "modelname", ModelName("MoCapsNet", args.num_res_blocks))
          ELSE args
    /\ mpc' = "dataset"
    /\ UNCHANGED classes

\* Lines 108-134: the classes of the data set, and args.num_classes.
MainDataset ==
    /\ mpc = "dataset"
    /\ IF args.dataset \in {"MNIST", "CIFAR", "SVHN"}
       THEN classes' = 10
       ELSE IF args.dataset = "CIFAR100" THEN classes' = 100
       ELSE IF args.dataset = "JAMONES" THEN classes' = 26
       ELSE classes' = 0
    /\ IF args.dataset \in {"MNIST", "CIFAR", "CIFAR100", "SVHN", "JAMONES"}
       THEN /\ args' = SetAttr(args, "num_classes", classes')
            /\ mpc' = "trainer"
       ELSE /\ mpc' = "ValueError"
            /\ UNCHANGED args

\* Line 175 and trainer.py 33-39: CapsNetTrainer.__init__ reads
\* args.modelname.
MainTrainer ==
    /\ mpc = "trainer"
    /\ mpc' = IF HasAttr(args, "modelname") THEN "run" ELSE "AttributeError"
    /\ UNCHANGED <<args, classes>>

\* Line 176: caps_net.run(args.epochs, classes=classes)
MainRun ==
    /\ mpc = "run"
    /\ mpc' = "running"
    /\ UNCHANGED <<args, classes>>

\* Line 78: every combination of the flags the parser accepts.
MainInit ==
    /\ args \in [residual : BOOLEAN, momentum : BOOLEAN, conflicts : BOOLEAN,
                 num_res_blocks : 0..MaxBlocks, dataset : Datasets]
    /\ classes = 0
    /\ mpc = "parsed"

MainIdle ==
    /\ args = <<>>
    /\ classes = 0
    /\ mpc = "idle"

BlockNext ==
    \/ BlockConstruct /\ UNCHANGED <<routeVars, netVars, trainVars, mainVars>>
    \/ BlockForwardBegin /\ UNCHANGED <<routeVars, netVars, trainVars, mainVars>>
    \/ BlockStep /\ UNCHANGED <<routeVars, netVars, trainVars, mainVars>>
    \/ BlockReturn /\ UNCHANGED <<routeVars, netVars, trainVars, mainVars>>

BlockIdle ==
    /\ block = NoBlock /\ bx0 = NoTensor /\ bx = NoTensor /\ bk = 0
    /\ bpc = "idle"

RouteNext ==
    \/ RouteBegin /\ UNCHANGED <<blockVars, netVars, trainVars, mainVars>>
    \/ RouteIter /\ UNCHANGED <<blockVars, netVars, trainVars, mainVars>>
    \/ RouteUpdate /\ UNCHANGED <<blockVars, netVars, trainVars, mainVars>>
    \/ RouteReturn /\ UNCHANGED <<blockVars, netVars, trainVars, mainVars>>

NetNext ==
    \/ NetConv /\ UNCHANGED <<blockVars, routeVars, trainVars, mainVars>>
    \/ NetPrimary /\ UNCHANGED <<blockVars, routeVars, trainVars, mainVars>>
    \/ NetCaps1 /\ UNCHANGED <<blockVars, routeVars, trainVars, mainVars>>
    \/ NetBlock /\ UNCHANGED <<blockVars, routeVars, trainVars, mainVars>>
    \/ NetCaps2 /\ UNCHANGED <<blockVars, routeVars, trainVars, mainVars>>
    \/ NetReconstruct /\ UNCHANGED <<blockVars, routeVars, trainVars, mainVars>>

TrainNext ==
    \/ TrainerBatch /\ UNCHANGED <<blockVars, routeVars, netVars, mainVars>>
    \/ TrainPhaseEnd /\ UNCHANGED <<blockVars, routeVars, netVars, mainVars>>
    \/ TestPhaseEnd /\ UNCHANGED <<blockVars, routeVars, netVars, mainVars>>
    \/ SaveAfterLoop /\ UNCHANGED <<blockVars, routeVars, netVars, mainVars>>
    \/ ClassEvalBatch /\ UNCHANGED <<blockVars, routeVars, netVars, mainVars>>
    \/ RunReturn /\ UNCHANGED <<blockVars, routeVars, netVars, mainVars>>

MainNext ==
    \/ MainModelName /\ UNCHANGED <<blockVars, routeVars, netVars, trainVars>>
    \/ MainDataset /\ UNCHANGED <<blockVars, routeVars, netVars, trainVars>>
    \/ MainTrainer /\ UNCHANGED <<blockVars, routeVars, netVars, trainVars>>
    \/ MainRun /\ UNCHANGED <<blockVars, routeVars, netVars, trainVars>>

BlockSpecInit == BlockInit /\ RouteIdle /\ NetIdle /\ TrainIdle /\ MainIdle
RouteSpecInit == RouteInit /\ BlockIdle /\ NetIdle /\ TrainIdle /\ MainIdle
NetSpecInit == NetInit /\ BlockIdle /\ RouteIdle /\ TrainIdle /\ MainIdle
TrainSpecInit == TrainInit /\ BlockIdle /\ RouteIdle /\ NetIdle /\ MainIdle
MainSpecInit == MainInit /\ BlockIdle /\ RouteIdle /\ NetIdle /\ TrainIdle

SpecBlock == BlockSpecInit /\ [][BlockNext]_vars
SpecRouting == RouteSpecInit /\ [][RouteNext]_vars
SpecNet == NetSpecInit /\ [][NetNext]_vars
SpecTrain == TrainSpecInit /\ [][TrainNext]_vars
SpecMain == MainSpecInit /\ [][MainNext]_vars

\* =========================================================================
\* Claims
\* =========================================================================
CountOf(seq, what) == Cardinality({k \in 1..Len(seq) : seq[k] = what})

W1 == block.functions[1].W
W2 == block.functions[2].W

\* C1 (as stated): forward returns x + f2(f1(x)) with skip and f2(f1(x))
\* without: one shortcut around the two-layer composition.
C1_SingleShortcut ==
    bpc = "returned" =>
        bx.val = (IF block.skip THEN bx0.val ELSE 0) + W2[W1[bx0.val]]

\* C1 (amended): without skip forward returns f2(f1(x)); with skip every
\* layer has its own shortcut: it returns y + f2(y) where y = x + f1(x).
C1_ShortcutPerLayer ==
    bpc = "returned" =>
        IF block.skip
        THEN LET y == bx0.val + W1[bx0.val] IN bx.val = y + W2[y]
        ELSE bx.val = W2[W1[bx0.val]]

\* A skip block has returned a value that differs from x + f2(f1(x)).
C1_Witness ==
    /\ bpc = "returned"
    /\ block.skip
    /\ W1[bx0.val] # 0
    /\ bx.val # bx0.val + W2[W1[bx0.val]]

\* C2: a block whose input capsule count or dimension differs from its
\* output capsule count or dimension is never constructed successfully.
C2_MismatchRejected ==
    block.constructed =>
        block.in_caps = block.num_classes /\ block.in_dim = block.out_dim

\* C3: in a forward call that returns, the logit update ran on every
\* iteration but the last: num_routing_iterations - 1 times in all, each
\* right after a non-final iteration, and never when there is one iteration
\* (b is then still its initial zero).
C3_UpdateAllButLast ==
    rpc = "done" =>
        /\ CountOf(rlog, "update") = rn - 1
        /\ rlog[Len(rlog)] = "iter"
        /\ \A k \in 1..(Len(rlog) - 1) :
              rlog[k] = "iter" => rlog[k + 1] = "update"
        /\ rn = 1 => rb = 0 /\ rlog = <<"iter">>

\* A single-iteration call on an input whose update would have changed b.
C3_Witness ==
    /\ rpc = "done"
    /\ rn = 1
    /\ ru # 0

\* C4: for every --num_routing value, a forward call runs exactly
\* num_routing iterations and returns the v of the last one.
C4_ExactIterationsThenV ==
    rpc \in {"done", "no_output"} =>
        /\ CountOf(rlog, "iter") = rn
        /\ rv # NoV
        /\ rpc = "done"


\* C5: for every example the mask is one-hot, the selected class has a
\* maximal capsule length, every class before it is strictly shorter (the
\* lowest index wins a tie), and every other class's capsule is zeroed in
\* the decoder's input.
C5_OneHotMask ==
    npc = "returned" =>
        \A e \in 1..nbatch :
            LET sel == max_length_idx[e] IN
            /\ sel \in Classes
            /\ \A j \in Classes : ny[e][j] = (IF j = sel THEN 1 ELSE 0)
            /\ Cardinality({j \in Classes : ny[e][j] # 0}) = 1
            /\ \A j \in Classes : preds[e][j] <= preds[e][sel]
            /\ \A j \in Classes : j < sel => preds[e][j] < preds[e][sel]
            /\ \A j \in Classes :
                  nmasked[e][j] = (IF j = sel THEN ncaps[e][j] ELSE 0)

\* An example whose maximum is shared by two classes with nonzero capsules.
C5_Witness ==
    /\ npc = "returned"
    /\ \E e \in 1..nbatch : \E a \in Classes, b \in Classes :
          /\ a < b
          /\ preds[e][a] = preds[e][b]
          /\ preds[e][a] > 0
          /\ \A m \in Classes : preds[e][m] <= preds[e][a]
          /\ max_length_idx[e] = a
          /\ nmasked[e][b] = 0

Caps1Out ==
    <<Stage("conv1", 0), Stage("relu", 0), Stage("primary", 0), Stage("caps1", 0)>>

\* C6: the returned list has one entry per block of the stack, in stack
\* order; entry k is block k applied to entry k-1 (to the stage-1 output for
\* the first); caps2 receives the last entry (the stage-1 output when there
\* is no block); the stage-1 output is caps1(primary(relu(conv1(x)))).
C6_LayersInStackOrder ==
    npc = "returned" =>
        /\ Len(layers) = Len(nblocks)
        /\ \A k \in 1..Len(layers) :
              layers[k] = Append(IF k = 1 THEN Caps1Out ELSE layers[k - 1],
                                 Stage("block", k - 1))
        /\ ncaps2in = (IF Len(nblocks) = 0 THEN Caps1Out ELSE layers[Len(layers)])
        /\ nout = Append(ncaps2in, Stage("caps2", 0))

\* A forward pass through a stack of at least two blocks has returned.
C6_Witness ==
    /\ npc = "returned"
    /\ Len(nblocks) >= 2
    /\ Len(layers) = Len(nblocks)


\* The sum of the losses of the first n batches of a phase.
RECURSIVE TotalLoss(_, _)
TotalLoss(ph, n) == IF n = 0 THEN 0 ELSE TotalLoss(ph, n - 1) + BatchLoss(ph, n - 1)

\* The quotient q is the mean of the n batch losses of phase ph.
IsMeanLoss(q, ph, n) == q[1] * n = TotalLoss(ph, n) * q[2]
SameQuotient(p, q) == p[1] * q[2] = q[1] * p[2]
Last(seq) == seq[Len(seq)]

\* C7: every loss appended to history is the mean over the batches of its
\* phase (running loss / number of batches), no phase ends without its
\* entry, and the entry equals the loss printed in that phase's log line.
C7_HistoryLossIsMean ==
    /\ tpc # "ZeroDivisionError"
    /\ \A k \in 1..Len(history.train_loss) :
          IsMeanLoss(history.train_loss[k], "train", loaders.train)
    /\ \A k \in 1..Len(history.test_loss) :
          IsMeanLoss(history.test_loss[k], "test", loaders.test)
    /\ (tpc = "batch" /\ phase = "test") =>
          SameQuotient(Last(history.train_loss), printed)
    /\ (tpc \in {"batch", "save"} /\ phase = "train" /\ epoch > 1) =>
          SameQuotient(Last(history.test_loss), printed)

TestAcc == history.test_acc

\* The best test accuracy before epoch k: the largest of 0 and the test
\* accuracies of epochs 1..k-1.
BestBefore(k) ==
    LET seen == {<<0, 1>>} \cup {TestAcc[j] : j \in 1..(k - 1)}
    IN CHOOSE m \in seen : \A a \in seen : GreaterEq(m, a)

\* Epoch k failed to strictly exceed the best accuracy seen before it.
NonImproving(k) == ~Greater(TestAcc[k], BestBefore(k))

\* The Patience epochs ending at e were all non-improving.
Stalled(e) ==
    /\ e >= Patience
    /\ \A k \in (e - Patience + 1)..e : NonImproving(k)

\* The run took the early-stop branch (lines 155-212).
EarlyStopped == tpc \in {"class_eval", "returned"} /\ epoch <= epochs

\* C8: the run has stopped early at the end of the test phase of epoch e
\* exactly when the 10 epochs ending at e were all non-improving (the
\* counter is then 10); a strict improvement leaves the counter at 0; and a
\* stopped run has processed the batches of epochs 1..e and no others.
C8_EarlyStop ==
    LET e == Len(TestAcc) IN
    /\ EarlyStopped =>
          /\ e = epoch
          /\ Stalled(e)
          /\ epochs_no_improve = Patience
          /\ steps = epoch * loaders.train
          /\ Len(history.train_loss) = epoch
    /\ ~EarlyStopped => ~Stalled(e)
    /\ (e > 0 /\ ~NonImproving(e)) => epochs_no_improve = 0
    /\ epochs_no_improve <= Patience

\* An early stop with epochs left to run.
C8_Witness ==
    /\ tpc = "returned"
    /\ EarlyStopped
    /\ epoch < epochs
    /\ epochs_no_improve = Patience

\* C9: the checkpoint is saved exactly once in every run, and only in a
\* terminal state (early stop, or after the last epoch): a run that has
\* ended has saved once, and nothing is saved while epochs remain.
C9_SavedOnceAtEnd ==
    /\ saves <= 1
    /\ saves = 1 => tpc \in {"class_eval", "returned"}
    /\ tpc \in {"returned", "ZeroDivisionError"} => saves = 1

\* C10: for every combination of --residual and --momentum, args.modelname
\* is assigned before CapsNetTrainer is constructed, and the trainer's read
\* of it never fails.
C10_ModelnameAssigned ==
    /\ mpc = "trainer" => HasAttr(args, "modelname")
    /\ mpc # "AttributeError"

\* The model parameters are those left by the optimizer steps taken so far:
\* they change exactly when steps does.
ParamsChange == steps' # steps

\* C11: the parameters change only in a pass of the batch loop of a train
\* phase, by one optimizer step; no step of a test phase and no step of the
\* per-class evaluation (before or after the checkpoint) changes them.
C11_ParamsChangeOnlyInTrain ==
    [][/\ ParamsChange =>
             /\ tpc = "batch"
             /\ phase = "train"
             /\ bpos < loaders.train
             /\ steps' = steps + 1
       /\ (phase = "test" \/ tpc \in {"save", "class_eval", "returned"}) =>
             ~ParamsChange]_vars

\* The per-class evaluation has run over test batches after a test phase,
\* and the parameters are those of the train batches of the epochs run.
C11_Witness ==
    /\ tpc = "class_eval"
    /\ bpos > 0
    /\ Len(history.test_acc) >= 1
    /\ steps = Len(history.train_loss) * loaders.train
    /\ steps > 0

\* The epochs whose test accuracy equals q.
EpochsAttaining(q) == {k \in 1..Len(TestAcc) : SameQuotient(TestAcc[k], q)}

\* The smallest element of a non-empty set of epochs.
Earliest(S) == CHOOSE k \in S : \A j \in S : k <= j

\* C12: once the test phases of epochs 1..e have ended, best_test_acc is the
\* largest of 0 and the test accuracies of epochs 1..e, best_epoch is the
\* earliest epoch with that accuracy (0 when no epoch exceeded 0), and
\* epochs_no_improve is e - best_epoch.
C12_BestBookkeeping ==
    LET e == Len(TestAcc)
        best == BestBefore(e + 1)
    IN /\ SameQuotient(best_test_acc, best)
       /\ best_epoch = IF Greater(best, <<0, 1>>)
                       THEN Earliest(EpochsAttaining(best))
                       ELSE 0
       /\ epochs_no_improve = e - best_epoch

\* The best accuracy was raised twice (in epoch 1 and in a later epoch), an
\* epoch after that repeated the first value, and the counter has run since.
C12_Witness ==
    /\ Len(TestAcc) >= 4
    /\ Greater(TestAcc[1], <<0, 1>>)
    /\ best_epoch > 1
    /\ Greater(best_test_acc, TestAcc[1])
    /\ SameQuotient(TestAcc[best_epoch + 1], TestAcc[1])
    /\ epochs_no_improve >= 2

====
